---- MODULE Spec2Model ----
(***************************************************************************)
(* Retail ETL pipeline: extract_product_data -> transform_product_data ->  *)
(* load_to_bigquery (staged swap) -> log_pipeline_run, as sequenced by     *)
(* run_pipeline, and as scheduled by the DAG extract >> transform >> load.  *)
(* The warehouse (dataset, staging, production and audit tables) is shared *)
(* state; every remote call is one atomic step that either takes effect    *)
(* and returns, or raises and has no effect.                               *)
(***************************************************************************)
EXTENDS Integers, Sequences, FiniteSets, TLC

VARIABLES
    pc,           \* per run: the statement the run is about to execute
    df_raw,       \* per run: pipeline.py df_raw
    df_clean,     \* per run: pipeline.py df_clean (the df given to load_to_bigquery)
    rows_loaded,  \* per run: pipeline.py rows_loaded
    exc,          \* per run: the exception in flight / caught by run_pipeline
    exit_code,    \* per run: process exit status, -1 while running
    dataset,      \* warehouse: the dataset BQ_DATASET exists
    staging,      \* warehouse: table BQ_TABLE_staging
    production,   \* warehouse: table BQ_TABLE
    audit,        \* warehouse: rows of pipeline_audit_log, in append order
    clock,        \* wall clock read by datetime.now()
    events,       \* history: calls made and how each ended, in order
    audit_calls,  \* history: every log_pipeline_run invocation and its outcome
    pre           \* history: the warehouse as it was before the runs started

vars == <<pc, df_raw, df_clean, rows_loaded, exc, exit_code, dataset, staging,
          production, audit, clock, events, audit_calls, pre>>

\* ------------------------------------------------------------------ bounds

\* Longest "products" array the source API returns.
MaxProducts == 2

\* ------------------------------------------------------------------ values

\* Cell values of a DataFrame / table, tagged by their Python type.
Null == [null |-> TRUE]                 \* None / NaN
NaT == [nat |-> TRUE]                   \* missing datetime
Str(s) == [str |-> s]
Num(n) == [num |-> n]
Dt(t, u) == [dt |-> t, unit |-> u]      \* datetime64[u], t seconds since epoch

IsStr(v) == "str" \in DOMAIN v
IsNum(v) == "num" \in DOMAIN v
IsDt(v) == "dt" \in DOMAIN v

\* A DataFrame: column labels and the rows, each row a function on the columns.
EmptyFrame == [cols |-> {}, rows |-> <<>>]

\* pd.DataFrame(products): the columns are the union of the keys, a key a
\* product lacks becomes NaN in its row.
DataFrame(products) ==
    LET cols == UNION {DOMAIN products[i] : i \in 1..Len(products)}
    IN  [cols |-> cols,
         rows |-> [i \in 1..Len(products) |->
                     [c \in cols |-> IF c \in DOMAIN products[i]
                                     THEN products[i][c] ELSE Null]]]

\* DataFrame.empty: any axis of length 0.
IsEmpty(df) == Len(df.rows) = 0 \/ df.cols = {}

\* len(df)
RowCount(df) == Len(df.rows)

\* ------------------------------------------------------------- source API

\* Products the source may return (JSON objects; a key may be absent or null).
P_full ==
    [code |-> Str("A1"), product_name |-> Str(" cola zero "),
     categories |-> Str("Beverages"), quantity |-> Str("330 ml"),
     stores |-> Str("Lidl"), countries |-> Str("France"),
     nutriscore_grade |-> Str(" B "), last_modified_t |-> Num(86400)]

P_dup ==
    [code |-> Str("A1"), product_name |-> Str("pepsi"),
     categories |-> Str("Sodas"), quantity |-> Null,
     stores |-> Null, countries |-> Str("Spain"),
     nutriscore_grade |-> Null, last_modified_t |-> Str("bad"),
     brands |-> Str("PepsiCo")]

P_nulls ==
    [code |-> Str("A2"), product_name |-> Null, categories |-> Null,
     quantity |-> Null, stores |-> Null, countries |-> Null,
     nutriscore_grade |-> Str("NOT_RATED"), last_modified_t |-> Null]

P_nodate ==
    [code |-> Str("A3"), product_name |-> Str("unknown product"),
     categories |-> Str("Teas"), quantity |-> Str("1 l"),
     stores |-> Str("Aldi"), countries |-> Str("Italy"),
     nutriscore_grade |-> Str("a")]

P_sparse == [code |-> Str("A4"), product_name |-> Str("tea")]

P_nocode == [product_name |-> Str("tea"), nutriscore_grade |-> Str("a")]

P_nofields == [c \in {} |-> Null]

SampleProducts ==
    {P_full, P_dup, P_nulls, P_nodate, P_sparse, P_nocode, P_nofields}

RECURSIVE SeqsUpTo(_, _)
SeqsUpTo(S, n) ==
    IF n = 0 THEN {<<>>}
    ELSE LET shorter == SeqsUpTo(S, n - 1)
         IN  shorter \cup {Append(s, x) : s \in shorter, x \in S}

\* The "products" arrays of the JSON responses considered.
Responses == SeqsUpTo(SampleProducts, MaxProducts)

\* Exceptions, as (type, str(e)).
NoExc == [type |-> "None", msg |-> ""]
Exc(t, m) == [type |-> t, msg |-> m]

\* requests.get / raise_for_status failures that extract_product_data re-raises.
ExtractErrors ==
    {Exc("Timeout", "read timed out"), Exc("HTTPError", "503 Server Error")}

\* ------------------------------------------------- extract_product_data

\* What one call of extract_product_data can do: raise what requests raised,
\* or return pd.DataFrame() for no products and pd.DataFrame(products) else.
ExtractOutcomes ==
    {[ok |-> FALSE, err |-> e, df |-> EmptyFrame] : e \in ExtractErrors}
    \cup {[ok |-> TRUE, err |-> NoExc,
           df |-> IF Len(products) = 0 THEN EmptyFrame ELSE DataFrame(products)]
          : products \in Responses}

\* ----------------------------------------------- transform_product_data

columns_needed ==
    {"code", "product_name", "categories", "quantity", "stores", "countries",
     "nutriscore_grade", "last_modified_t"}

\* df[col] = values, one per row (adds the column when it is new).
SetCol(df, col, values) ==
    LET cols == df.cols \cup {col}
    IN  [cols |-> cols,
         rows |-> [i \in 1..Len(df.rows) |->
                     [c \in cols |-> IF c = col THEN values[i]
                                     ELSE df.rows[i][c]]]]

\* The index of a frame.
Index(df) == 1..Len(df.rows)

\* df[columns], df.drop(columns=[col])
SelectCols(df, cols) ==
    [cols |-> cols,
     rows |-> [i \in 1..Len(df.rows) |-> [c \in cols |-> df.rows[i][c]]]]

DropCol(df, col) == SelectCols(df, df.cols \ {col})

\* Step 1: keep the needed columns that exist in the response.
KeepRelevant(df) == SelectCols(df, columns_needed \cap df.cols)

\* Mutant of KeepFirst: keep="last", the last record of each code survives.
RECURSIVE KeepFirst_Last(_, _)
KeepFirst_Last(rows, seen) ==
    IF rows = <<>> THEN <<>>
    ELSE IF \E k \in 2..Len(rows) : rows[k]["code"] = Head(rows)["code"]
         THEN KeepFirst_Last(Tail(rows), seen)
         ELSE <<Head(rows)>> \o KeepFirst_Last(Tail(rows), seen)

\* Step 2: drop_duplicates(subset=["code"]), keep="first"; NaN codes are equal.
RECURSIVE KeepFirst(_, _)
KeepFirst(rows, seen) ==
    IF rows = <<>> THEN <<>>
    ELSE IF Head(rows)["code"] \in seen
         THEN KeepFirst(Tail(rows), seen)
         ELSE <<Head(rows)>> \o KeepFirst(Tail(rows), seen \cup {Head(rows)["code"]})

DropDuplicates(df) == [cols |-> df.cols, rows |-> KeepFirst(df.rows, {})]

\* Step 3: df[col] = df[col].fillna(default)
FillNa(df, col, default) ==
    SetCol(df, col, [i \in Index(df) |-> IF df.rows[i][col] = Null
                                         THEN Str(default)
                                         ELSE df.rows[i][col]])

\* The fillna lines, in source order: (column, default).
Defaults ==
    << <<"product_name", "Unknown Product">>, <<"categories", "Uncategorized">>,
       <<"stores", "Unknown Store">>, <<"countries", "Unknown Country">>,
       <<"nutriscore_grade", "not_rated">>, <<"quantity", "Unknown">> >>

RECURSIVE HandleNulls(_, _)
HandleNulls(df, k) ==
    IF k > Len(Defaults) THEN df
    ELSE HandleNulls(FillNa(df, Defaults[k][1], Defaults[k][2]), k + 1)

\* The first column a fillna line reads that the frame lacks ("" when none).
FirstMissing(cols) ==
    LET miss == {k \in 1..Len(Defaults) : Defaults[k][1] \notin cols}
    IN  IF miss = {} THEN ""
        ELSE Defaults[CHOOSE k \in miss : \A j \in miss : k <= j][1]

\* Step 4: str.strip(), str.title(), str.lower() on the strings that occur.
Strip(s) ==
    CASE s = " cola zero " -> "cola zero"
      [] s = " B " -> "B"
      [] OTHER -> s

Title(s) ==
    CASE s = "cola zero" -> "Cola Zero"
      [] s = "pepsi" -> "Pepsi"
      [] s = "tea" -> "Tea"
      [] s = "unknown product" -> "Unknown Product"
      [] OTHER -> s

Lower(s) ==
    CASE s = "B" -> "b"
      [] s = "NOT_RATED" -> "not_rated"
      [] OTHER -> s

\* Series.str.strip().str.title() / .str.strip().str.lower(): NaN for a value
\* that is not a string.
StripTitle(v) == IF IsStr(v) THEN Str(Title(Strip(v.str))) ELSE Null
StripLower(v) == IF IsStr(v) THEN Str(Lower(Strip(v.str))) ELSE Null

Standardize(df) ==
    LET named == SetCol(df, "product_name",
                        [i \in Index(df) |-> StripTitle(df.rows[i]["product_name"])])
    IN  SetCol(named, "nutriscore_grade",
               [i \in Index(df) |-> StripLower(named.rows[i]["nutriscore_grade"])])

\* Step 5: pd.to_numeric(errors="coerce"), then pd.to_datetime(unit="s",
\* errors="coerce"): a datetime64[ns] column; then the raw column is dropped.
ToNumeric(v) ==
    IF IsNum(v) THEN v
    ELSE IF v = Str("86400") THEN Num(86400)
    ELSE IF v = Str("172800") THEN Num(172800)
    ELSE Null

ToDatetime(v) == IF IsNum(v) THEN Dt(v.num, "ns") ELSE NaT

\* Mutant of ConvertTimestamp: the raw column is not dropped.
ConvertTimestamp_KeepRaw(df) ==
    IF "last_modified_t" \in df.cols
    THEN LET numeric == SetCol(df, "last_modified_t",
                               [i \in Index(df) |->
                                   ToNumeric(df.rows[i]["last_modified_t"])])
         IN  SetCol(numeric, "last_modified_date",
                    [i \in Index(df) |->
                        ToDatetime(numeric.rows[i]["last_modified_t"])])
    ELSE df

ConvertTimestamp(df) ==
    IF "last_modified_t" \in df.cols
    THEN LET numeric == SetCol(df, "last_modified_t",
                               [i \in Index(df) |->
                                   ToNumeric(df.rows[i]["last_modified_t"])])
         IN  DropCol(SetCol(numeric, "last_modified_date",
                            [i \in Index(df) |->
                                ToDatetime(numeric.rows[i]["last_modified_t"])]),
                     "last_modified_t")
    ELSE df

\* Step 6: extracted_at = datetime.now() (a datetime64 column whose unit is
\* the pandas build's: ns or us), pipeline_version = "1.0".
DatetimeUnits == {"ns", "us"}

AddMetadata(df, now, unit) ==
    SetCol(SetCol(df, "extracted_at", [i \in Index(df) |-> Dt(now, unit)]),
           "pipeline_version", [i \in Index(df) |-> Str("1.0")])

\* Mutant of FlagQuality: the grade check runs first, the name check last.
FlagQuality_NameLast(df) ==
    SetCol(df, "quality_flag",
           [i \in Index(df) |->
               IF df.rows[i]["product_name"] = Str("Unknown Product")
               THEN Str("missing_name")
               ELSE IF df.rows[i]["nutriscore_grade"] = Str("not_rated")
               THEN Str("missing_nutriscore")
               ELSE Str("ok")])

\* Step 7: "ok", overwritten by the name check, overwritten by the grade check.
FlagQuality(df) ==
    LET ok == SetCol(df, "quality_flag", [i \in Index(df) |-> Str("ok")])
        name == SetCol(ok, "quality_flag",
                       [i \in Index(df) |->
                           IF ok.rows[i]["product_name"] = Str("Unknown Product")
                           THEN Str("missing_name")
                           ELSE ok.rows[i]["quality_flag"]])
    IN  SetCol(name, "quality_flag",
               [i \in Index(df) |->
                   IF name.rows[i]["nutriscore_grade"] = Str("not_rated")
                   THEN Str("missing_nutriscore")
                   ELSE name.rows[i]["quality_flag"]])

\* transform_product_data(df) called at wall-clock `now`: the frame returned,
\* or the KeyError raised for a column the code reads and the frame lacks.
transform_product_data(df, now, unit) ==
    IF IsEmpty(df) THEN [ok |-> TRUE, err |-> NoExc, df |-> df]
    ELSE LET kept == KeepRelevant(df)
         IN  IF "code" \notin kept.cols
             THEN [ok |-> FALSE, err |-> Exc("KeyError", "code"), df |-> EmptyFrame]
             ELSE IF FirstMissing(kept.cols) # ""
             THEN [ok |-> FALSE, err |-> Exc("KeyError", FirstMissing(kept.cols)),
                   df |-> EmptyFrame]
             ELSE [ok |-> TRUE, err |-> NoExc,
                   df |-> FlagQuality(AddMetadata(ConvertTimestamp(Standardize(
                              HandleNulls(DropDuplicates(kept), 1))), now, unit))]

\* ------------------------------------------------------------- warehouse

\* A table of the dataset: absent, or its schema and rows.
NoTable == [exists |-> FALSE]
Table(df) == [exists |-> TRUE, cols |-> df.cols, rows |-> df.rows]

\* str(datetime): the text of a timestamp.
TimeText(t) == "datetime:" \o ToString(t)

\* df_load: a copy of df whose datetime64[ns] columns are astype(str).
IsDatetimeNs(df, c) ==
    \A i \in 1..Len(df.rows) :
        LET v == df.rows[i][c] IN v = NaT \/ (IsDt(v) /\ v.unit = "ns")

AsTypeStr(v) == IF v = NaT THEN Str("NaT") ELSE Str(TimeText(v.dt))

df_load(df) ==
    [cols |-> df.cols,
     rows |-> [i \in 1..Len(df.rows) |->
                 [c \in df.cols |-> IF IsDatetimeNs(df, c)
                                    THEN AsTypeStr(df.rows[i][c])
                                    ELSE df.rows[i][c]]]]

\* Mutant of log_entry: the error is never written to the entry.
log_entry_NoError(now, status, rows, error) ==
    [run_timestamp |-> TimeText(now), status |-> status, rows_loaded |-> rows,
     error_message |-> Null, pipeline_version |-> "1.0"]

\* log_entry of log_pipeline_run, built at wall-clock `now`.
log_entry(now, status, rows, error) ==
    [run_timestamp |-> TimeText(now), status |-> status, rows_loaded |-> rows,
     error_message |-> IF error # NoExc THEN Str(error.msg) ELSE Null,
     pipeline_version |-> "1.0"]

\* Errors the BigQuery client raises, by the call that raised.
ClientError == Exc("DefaultCredentialsError", "cannot read service account key")
StagingError == Exc("GoogleAPIError", "staging load job failed")
SwapError == Exc("GoogleAPIError", "create or replace query failed")
VerifyError == Exc("GoogleAPIError", "count query failed")

\* ------------------------------------------------------------------ state

Runs == {1, 2}

\* Batches earlier runs left in the warehouse.
PreviousBatch ==
    df_load(transform_product_data(DataFrame(<<P_nodate>>), 0, "ns").df)
StaleBatch ==
    df_load(transform_product_data(DataFrame(<<P_nulls, P_nodate>>), 0, "ns").df)
PreviousEntry == log_entry(0, "SUCCESS", 1, NoExc)

\* The warehouse before the runs: no dataset yet, or a dataset with any of
\* the three tables present.
Warehouses ==
    {[dataset |-> FALSE, staging |-> NoTable, production |-> NoTable, audit |-> <<>>]}
    \cup [dataset : {TRUE},
          staging : {NoTable, Table(PreviousBatch), Table(StaleBatch)},
          production : {NoTable, Table(PreviousBatch)},
          audit : {<<>>, <<PreviousEntry>>}]

InitWith(w, start) ==
    /\ pc = start
    /\ df_raw = [r \in Runs |-> EmptyFrame]
    /\ rows_loaded = [r \in Runs |-> 0]
    /\ exc = [r \in Runs |-> NoExc]
    /\ exit_code = [r \in Runs |-> -1]
    /\ dataset = w.dataset
    /\ staging = w.staging
    /\ production = w.production
    /\ audit = w.audit
    /\ clock = 1
    /\ events = <<>>
    /\ audit_calls = <<>>
    /\ pre = w

\* One invocation of run_pipeline (run 1).
Init ==
    /\ \E w \in Warehouses :
           InitWith(w, [r \in Runs |-> IF r = 1 THEN "extract" ELSE "idle"])
    /\ df_clean = [r \in Runs |-> EmptyFrame]

Ev(r, op, res) == [run |-> r, op |-> op, res |-> res]

Goto(r, label) == pc' = [pc EXCEPT ![r] = label]

Raise(r, e) == exc' = [exc EXCEPT ![r] = e] /\ Goto(r, "except")

\* ---------------------------------------------------- run_pipeline: stages

\* How the one requests.get of an extract_product_data call ended: the
\* exception raised, or the number of products in the response.
RequestResult(o) ==
    IF o.ok THEN "products:" \o ToString(RowCount(o.df)) ELSE o.err.type

\* Mutant of RunExtract: a failed request is retried once inside the extractor.
RunExtract_Retry(r) ==
    /\ pc[r] = "extract"
    /\ \E o \in ExtractOutcomes :
        IF o.ok
        THEN /\ df_raw' = [df_raw EXCEPT ![r] = o.df]
             /\ events' = events \o <<Ev(r, "extract", "call"),
                                      Ev(r, "request", RequestResult(o)),
                                      Ev(r, "extract", "ok")>>
             /\ Goto(r, "transform")
             /\ UNCHANGED exc
        ELSE /\ events' = events \o <<Ev(r, "extract", "call"),
                                      Ev(r, "request", RequestResult(o)),
                                      Ev(r, "request", RequestResult(o)),
                                      Ev(r, "extract", "raise")>>
             /\ Raise(r, o.err)
             /\ UNCHANGED df_raw
    /\ UNCHANGED <<df_clean, rows_loaded, exit_code, dataset, staging, production,
                   audit, clock, audit_calls, pre>>

\* pipeline.py:23  df_raw = extract_product_data(category=category): one
\* requests.get (extract.py:25), then the frame returned or the error re-raised.
RunExtract(r) ==
    /\ pc[r] = "extract"
    /\ \E o \in ExtractOutcomes :
        IF o.ok
        THEN /\ df_raw' = [df_raw EXCEPT ![r] = o.df]
             /\ events' = events \o <<Ev(r, "extract", "call"),
                                      Ev(r, "request", RequestResult(o)),
                                      Ev(r, "extract", "ok")>>
             /\ Goto(r, "transform")
             /\ UNCHANGED exc
        ELSE /\ events' = events \o <<Ev(r, "extract", "call"),
                                      Ev(r, "request", RequestResult(o)),
                                      Ev(r, "extract", "raise")>>
             /\ Raise(r, o.err)
             /\ UNCHANGED df_raw
    /\ UNCHANGED <<df_clean, rows_loaded, exit_code, dataset, staging, production,
                   audit, clock, audit_calls, pre>>

\* Mutant of RunTransform: a transform error is swallowed and the run goes on
\* to the load.
RunTransform_Continue(r) ==
    /\ pc[r] = "transform"
    /\ \E unit \in DatetimeUnits :
        LET o == transform_product_data(df_raw[r], clock, unit)
        IN  /\ df_clean' = [df_clean EXCEPT ![r] = o.df]
            /\ events' = events \o <<Ev(r, "transform", "call"),
                                     Ev(r, "transform", IF o.ok THEN "ok" ELSE "raise")>>
            /\ Goto(r, "load")
            /\ UNCHANGED exc
    /\ clock' = clock + 1
    /\ UNCHANGED <<df_raw, rows_loaded, exit_code, dataset, staging, production,
                   audit, audit_calls, pre>>

\* pipeline.py:28  df_clean = transform_product_data(df_raw)
RunTransform(r) ==
    /\ pc[r] = "transform"
    /\ \E unit \in DatetimeUnits :
        LET o == transform_product_data(df_raw[r], clock, unit)
        IN  IF o.ok
            THEN /\ df_clean' = [df_clean EXCEPT ![r] = o.df]
                 /\ events' = events \o <<Ev(r, "transform", "call"),
                                          Ev(r, "transform", "ok")>>
                 /\ Goto(r, "load")
                 /\ UNCHANGED exc
            ELSE /\ events' = events \o <<Ev(r, "transform", "call"),
                                          Ev(r, "transform", "raise")>>
                 /\ Raise(r, o.err)
                 /\ UNCHANGED df_clean
    /\ clock' = clock + 1
    /\ UNCHANGED <<df_raw, rows_loaded, exit_code, dataset, staging, production,
                   audit, audit_calls, pre>>

\* ------------------------------------------------------ load_to_bigquery

\* load.py:78-80: the error of a step is printed and re-raised to the caller.
LoadRaise(r, step, e) ==
    /\ events' = events \o <<Ev(r, step, "raise"), Ev(r, "load", "raise")>>
    /\ Raise(r, e)

\* Mutant of CallLoad: no df.empty guard, every batch goes through the load.
CallLoad_NoGuard(r) ==
    /\ pc[r] = "load"
    /\ events' = Append(events, Ev(r, "load", "call"))
    /\ Goto(r, "client")
    /\ UNCHANGED <<df_raw, df_clean, rows_loaded, exc, exit_code, dataset, staging,
                   production, audit, clock, audit_calls, pre>>

\* pipeline.py:33 / load.py:21-25: the call, returning at once when df.empty.
CallLoad(r) ==
    /\ pc[r] = "load"
    /\ IF IsEmpty(df_clean[r])
       THEN /\ events' = events \o <<Ev(r, "load", "call"), Ev(r, "load", "ok")>>
            /\ Goto(r, "load_returned")
       ELSE /\ events' = Append(events, Ev(r, "load", "call"))
            /\ Goto(r, "client")
    /\ UNCHANGED <<df_raw, df_clean, rows_loaded, exc, exit_code, dataset, staging,
                   production, audit, clock, audit_calls, pre>>

\* load.py:29-32  bigquery.Client.from_service_account_json(...)
LoadClient(r) ==
    /\ pc[r] = "client"
    /\ \/ /\ events' = Append(events, Ev(r, "client", "ok"))
          /\ Goto(r, "create_dataset")
          /\ UNCHANGED exc
       \/ LoadRaise(r, "client", ClientError)
    /\ UNCHANGED <<df_raw, df_clean, rows_loaded, exit_code, dataset, staging,
                   production, audit, clock, audit_calls, pre>>

\* load.py:34-41  Step 1: create_dataset(exists_ok=True); whatever it raises
\* is caught by the inner handler, printed, and the load goes on.
LoadCreateDataset(r) ==
    /\ pc[r] = "create_dataset"
    /\ \/ /\ dataset' = TRUE
          /\ events' = Append(events, Ev(r, "create_dataset", "ok"))
       \/ /\ UNCHANGED dataset
          /\ events' = Append(events, Ev(r, "create_dataset", "raise"))
    /\ Goto(r, "staging_write")
    /\ UNCHANGED <<df_raw, df_clean, rows_loaded, exc, exit_code, staging,
                   production, audit, clock, audit_calls, pre>>

\* Mutant of LoadStaging: the staging load uses WRITE_APPEND.
LoadStaging_Append(r) ==
    /\ pc[r] = "staging_write"
    /\ \/ /\ dataset
          /\ staging' = IF staging.exists
                        THEN [staging EXCEPT !.rows = @ \o df_load(df_clean[r]).rows]
                        ELSE Table(df_load(df_clean[r]))
          /\ events' = Append(events, Ev(r, "staging_write", "ok"))
          /\ Goto(r, "swap")
          /\ UNCHANGED exc
       \/ /\ LoadRaise(r, "staging_write", StagingError)
          /\ UNCHANGED staging
    /\ UNCHANGED <<df_raw, df_clean, rows_loaded, exit_code, dataset, production,
                   audit, clock, audit_calls, pre>>

\* load.py:43-62  Step 2: WRITE_TRUNCATE load of df_load into the staging
\* table (needs the dataset), job.result() awaited.
LoadStaging(r) ==
    /\ pc[r] = "staging_write"
    /\ \/ /\ dataset
          /\ staging' = Table(df_load(df_clean[r]))
          /\ events' = Append(events, Ev(r, "staging_write", "ok"))
          /\ Goto(r, "swap")
          /\ UNCHANGED exc
       \/ /\ LoadRaise(r, "staging_write", StagingError)
          /\ UNCHANGED staging
    /\ UNCHANGED <<df_raw, df_clean, rows_loaded, exit_code, dataset, production,
                   audit, clock, audit_calls, pre>>

\* Mutant of LoadSwap: production is rebuilt from the caller's own batch
\* instead of from the staging table.
LoadSwap_OwnBatch(r) ==
    /\ pc[r] = "swap"
    /\ \/ /\ dataset /\ staging.exists
          /\ production' = Table(df_load(df_clean[r]))
          /\ events' = Append(events, Ev(r, "swap", "ok"))
          /\ Goto(r, "verify")
          /\ UNCHANGED exc
       \/ /\ LoadRaise(r, "swap", SwapError)
          /\ UNCHANGED production
    /\ UNCHANGED <<df_raw, df_clean, rows_loaded, exit_code, dataset, staging,
                   audit, clock, audit_calls, pre>>

\* Mutant of LoadSwap: the swap inserts the staging rows into production
\* instead of replacing it.
LoadSwap_Append(r) ==
    /\ pc[r] = "swap"
    /\ \/ /\ dataset /\ staging.exists
          /\ production' = IF production.exists
                           THEN [production EXCEPT !.rows = @ \o staging.rows]
                           ELSE staging
          /\ events' = Append(events, Ev(r, "swap", "ok"))
          /\ Goto(r, "verify")
          /\ UNCHANGED exc
       \/ /\ LoadRaise(r, "swap", SwapError)
          /\ UNCHANGED production
    /\ UNCHANGED <<df_raw, df_clean, rows_loaded, exit_code, dataset, staging,
                   audit, clock, audit_calls, pre>>

\* load.py:64-70  Step 3: CREATE OR REPLACE TABLE production AS SELECT * FROM
\* staging, one atomic query job.
LoadSwap(r) ==
    /\ pc[r] = "swap"
    /\ \/ /\ dataset /\ staging.exists
          /\ production' = staging
          /\ events' = Append(events, Ev(r, "swap", "ok"))
          /\ Goto(r, "verify")
          /\ UNCHANGED exc
       \/ /\ LoadRaise(r, "swap", SwapError)
          /\ UNCHANGED production
    /\ UNCHANGED <<df_raw, df_clean, rows_loaded, exit_code, dataset, staging,
                   audit, clock, audit_calls, pre>>

\* The error a checking step 4 would raise.
VerificationMismatch == Exc("VerificationMismatch", "row count differs from batch")

\* Mutant of LoadVerify: the count read back is compared with len(df) and a
\* difference raises.
LoadVerify_Strict(r) ==
    /\ pc[r] = "verify"
    /\ \/ /\ dataset /\ production.exists
          /\ Len(production.rows) = RowCount(df_clean[r])
          /\ events' = events \o <<Ev(r, "verify", "ok"),
                                   Ev(r, "verified", ToString(Len(production.rows))),
                                   Ev(r, "load", "ok")>>
          /\ Goto(r, "load_returned")
          /\ UNCHANGED exc
       \/ /\ dataset /\ production.exists
          /\ Len(production.rows) # RowCount(df_clean[r])
          /\ events' = events \o <<Ev(r, "verify", "ok"),
                                   Ev(r, "verified", ToString(Len(production.rows))),
                                   Ev(r, "load", "raise")>>
          /\ Raise(r, VerificationMismatch)
       \/ LoadRaise(r, "verify", VerifyError)
    /\ UNCHANGED <<df_raw, df_clean, rows_loaded, exit_code, dataset, staging,
                   production, audit, clock, audit_calls, pre>>

\* load.py:72-76  Step 4: SELECT COUNT(*) on production; row.total is printed
\* ("Verified: n rows in production table") and compared with nothing.
LoadVerify(r) ==
    /\ pc[r] = "verify"
    /\ \/ /\ dataset /\ production.exists
          /\ events' = events \o <<Ev(r, "verify", "ok"),
                                   Ev(r, "verified", ToString(Len(production.rows))),
                                   Ev(r, "load", "ok")>>
          /\ Goto(r, "load_returned")
          /\ UNCHANGED exc
       \/ LoadRaise(r, "verify", VerifyError)
    /\ UNCHANGED <<df_raw, df_clean, rows_loaded, exit_code, dataset, staging,
                   production, audit, clock, audit_calls, pre>>

\* ------------------------------------------------------ log_pipeline_run

\* How one log_pipeline_run call can end: the entry appended (the audit table
\* lives in the dataset), or the client creation / the append raising inside
\* its try block, which load.py:112-113 catches and prints.
AuditOutcomes == {"ok", "client_error", "append_error"}

\* load.py:83-113  log_pipeline_run(status, rows_loaded, error); returns in
\* every case.
log_pipeline_run(r, status, rows, error) ==
    /\ \E res \in AuditOutcomes :
        /\ res = "ok" => dataset
        /\ audit' = IF res = "ok"
                    THEN Append(audit, log_entry(clock, status, rows, error))
                    ELSE audit
        /\ audit_calls' = Append(audit_calls,
                                 [run |-> r, res |-> res,
                                  entry |-> log_entry(clock, status, rows, error)])
        /\ events' = Append(events, Ev(r, "audit", res))
    /\ clock' = clock + 1

\* ------------------------------------------- run_pipeline: after the load

\* Mutant of SetRowsLoaded: the raw frame is counted.
SetRowsLoaded_Raw(r) ==
    /\ pc[r] = "load_returned"
    /\ rows_loaded' = [rows_loaded EXCEPT ![r] = RowCount(df_raw[r])]
    /\ Goto(r, "log_success")
    /\ UNCHANGED <<df_raw, df_clean, exc, exit_code, dataset, staging, production,
                   audit, clock, events, audit_calls, pre>>

\* pipeline.py:34  rows_loaded = len(df_clean)
SetRowsLoaded(r) ==
    /\ pc[r] = "load_returned"
    /\ rows_loaded' = [rows_loaded EXCEPT ![r] = RowCount(df_clean[r])]
    /\ Goto(r, "log_success")
    /\ UNCHANGED <<df_raw, df_clean, exc, exit_code, dataset, staging, production,
                   audit, clock, events, audit_calls, pre>>

\* Mutant of LogSuccess: log_pipeline_run re-raises its own failure, which
\* run_pipeline's handler catches.
LogSuccess_Reraise(r) ==
    /\ pc[r] = "log_success"
    /\ log_pipeline_run(r, "SUCCESS", rows_loaded[r], NoExc)
    /\ IF audit' = audit
       THEN /\ Raise(r, Exc("GoogleAPIError", "audit append failed"))
            /\ UNCHANGED exit_code
       ELSE /\ Goto(r, "done")
            /\ exit_code' = [exit_code EXCEPT ![r] = 0]
            /\ UNCHANGED exc
    /\ UNCHANGED <<df_raw, df_clean, rows_loaded, dataset, staging,
                   production, pre>>

\* pipeline.py:37-45  log_pipeline_run("SUCCESS", rows_loaded); the function
\* returns and the process ends with status 0.
LogSuccess(r) ==
    /\ pc[r] = "log_success"
    /\ log_pipeline_run(r, "SUCCESS", rows_loaded[r], NoExc)
    /\ Goto(r, "done")
    /\ exit_code' = [exit_code EXCEPT ![r] = 0]
    /\ UNCHANGED <<df_raw, df_clean, rows_loaded, exc, dataset, staging,
                   production, pre>>

\* Mutant of LogFailure: the handler exits without the audit write.
LogFailure_NoAudit(r) ==
    /\ pc[r] = "except"
    /\ Goto(r, "done")
    /\ exit_code' = [exit_code EXCEPT ![r] = 1]
    /\ UNCHANGED <<df_raw, df_clean, rows_loaded, exc, dataset, staging,
                   production, audit, clock, events, audit_calls, pre>>

\* pipeline.py:47-55  except Exception as e: log_pipeline_run("FAILED",
\* rows_loaded, e); sys.exit(1)
LogFailure(r) ==
    /\ pc[r] = "except"
    /\ log_pipeline_run(r, "FAILED", rows_loaded[r], exc[r])
    /\ Goto(r, "done")
    /\ exit_code' = [exit_code EXCEPT ![r] = 1]
    /\ UNCHANGED <<df_raw, df_clean, rows_loaded, exc, dataset, staging,
                   production, pre>>

\* ---------------------------------------------------------- specifications

Next ==
    \E r \in Runs :
        \/ RunExtract(r)
        \/ RunTransform(r)
        \/ CallLoad(r)
        \/ LoadClient(r)
        \/ LoadCreateDataset(r)
        \/ LoadStaging(r)
        \/ LoadSwap(r)
        \/ LoadVerify(r)
        \/ SetRowsLoaded(r)
        \/ LogSuccess(r)
        \/ LogFailure(r)

Spec == Init /\ [][Next]_vars

\* Two callers of load_to_bigquery on the same destination at the same time
\* (as two scheduler runs make them), each with its own cleaned batch.
ConcurrentBatches ==
    {transform_product_data(DataFrame(<<P_full>>), 1, "ns").df,
     transform_product_data(DataFrame(<<P_nulls, P_nodate>>), 1, "us").df,
     EmptyFrame}

InitConc ==
    /\ \E w \in {v \in Warehouses : v.audit = <<>>} :
           InitWith(w, [r \in Runs |-> "load"])
    /\ df_clean \in [Runs -> ConcurrentBatches]

NextConc ==
    \E r \in Runs :
        \/ CallLoad(r)
        \/ LoadClient(r)
        \/ LoadCreateDataset(r)
        \/ LoadStaging(r)
        \/ LoadSwap(r)
        \/ LoadVerify(r)

SpecConc == InitConc /\ [][NextConc]_vars

\* Two invocations of run_pipeline on the same destination whose loads
\* overlap: each has extracted and transformed its own batch and is about to
\* call load_to_bigquery; the runs go on to their audit write.
OverlapInputs == << <<P_full>>, <<P_nulls, P_nodate>> >>

OverlapWarehouses ==
    {w \in Warehouses : w.audit = <<>> /\ w.staging = NoTable /\ w.production.exists}

InitOverlap ==
    /\ \E w \in OverlapWarehouses :
           /\ dataset = w.dataset
           /\ staging = w.staging
           /\ production = w.production
           /\ audit = w.audit
           /\ pre = w
    /\ df_raw = [r \in Runs |-> DataFrame(OverlapInputs[r])]
    /\ df_clean = [r \in Runs |-> transform_product_data(df_raw[r], r, "ns").df]
    /\ pc = [r \in Runs |-> "load"]
    /\ rows_loaded = [r \in Runs |-> 0]
    /\ exc = [r \in Runs |-> NoExc]
    /\ exit_code = [r \in Runs |-> -1]
    /\ clock = 3
    /\ events = <<Ev(1, "extract", "call"), Ev(1, "extract", "ok"),
                  Ev(2, "extract", "call"), Ev(2, "extract", "ok"),
                  Ev(1, "transform", "call"), Ev(1, "transform", "ok"),
                  Ev(2, "transform", "call"), Ev(2, "transform", "ok")>>
    /\ audit_calls = <<>>

NextOverlap ==
    \E r \in Runs :
        \/ CallLoad(r)
        \/ LoadClient(r)
        \/ LoadCreateDataset(r)
        \/ LoadStaging(r)
        \/ LoadSwap(r)
        \/ LoadVerify(r)
        \/ SetRowsLoaded(r)
        \/ LogSuccess(r)
        \/ LogFailure(r)

SpecOverlap == InitOverlap /\ [][NextOverlap]_vars

\* ------------------------------------------------ the scheduled DAG run

\* default_args['retries']: a failed task is tried again up to 3 times.
retries == 3

\* df.to_json(): a datetime becomes its epoch milliseconds, NaT becomes null;
\* a frame without columns serialises to "{}" and loses its rows.
ToJsonValue(v) ==
    IF v = NaT THEN Null
    ELSE IF IsDt(v) THEN Num(v.dt * 1000)
    ELSE v

ToJson(df) ==
    IF df.cols = {} THEN EmptyFrame
    ELSE [cols |-> df.cols,
          rows |-> [i \in 1..Len(df.rows) |->
                      [c \in df.cols |-> ToJsonValue(df.rows[i][c])]]]

\* pd.read_json(text): a column named like a date (extracted_at ends in
\* "_at") is parsed back into datetime64[ns], a column of numeric strings
\* (pipeline_version "1.0") becomes numbers, any other value is kept.
FromJsonValue(c, v) ==
    IF c = "extracted_at" /\ IsNum(v) THEN Dt(v.num \div 1000, "ns")
    ELSE IF c = "extracted_at" /\ v = Null THEN NaT
    ELSE IF c = "pipeline_version" /\ v = Str("1.0") THEN Num(1)
    ELSE v

ReadJson(j) ==
    [cols |-> j.cols,
     rows |-> [i \in 1..Len(j.rows) |->
                 [c \in j.cols |-> FromJsonValue(c, j.rows[i][c])]]]

\* Attempts of a task of the DAG run that have failed so far.
Failures(r, task) ==
    Cardinality({i \in DOMAIN events : events[i] = Ev(r, task, "fail")})

\* A task attempt raised: Airflow tries the task again while it has retries
\* left, and otherwise marks the task and the DAG run failed.  No callback
\* is registered, nothing else runs.
FailTask(r, task, history) ==
    /\ events' = Append(history, Ev(r, task, "fail"))
    /\ IF Failures(r, task) < retries
       THEN UNCHANGED pc
       ELSE Goto(r, "dag_failed")

\* The extract outcomes considered for a DAG run: an error, no products, a
\* batch with a repeated code, a batch lacking columns, a two-record batch.
DagResponses == {<<>>, <<P_full, P_dup>>, <<P_sparse>>, <<P_nulls, P_nodate>>}

DagExtractOutcomes ==
    {o \in ExtractOutcomes :
        o.ok => \E p \in DagResponses :
                    o.df = IF Len(p) = 0 THEN EmptyFrame ELSE DataFrame(p)}

\* etl_dag.py:37-42  extract_task: extract_product_data, then the frame is
\* pushed to XCom as JSON (df_raw holds the XCom value).
DagExtract(r) ==
    /\ pc[r] = "dag_extract"
    /\ \E o \in DagExtractOutcomes :
        IF o.ok
        THEN /\ df_raw' = [df_raw EXCEPT ![r] = ToJson(o.df)]
             /\ events' = events \o <<Ev(r, "extract", "call"),
                                      Ev(r, "request", RequestResult(o)),
                                      Ev(r, "extract", "ok")>>
             /\ Goto(r, "dag_transform")
        ELSE /\ FailTask(r, "extract_task",
                         events \o <<Ev(r, "extract", "call"),
                                     Ev(r, "request", RequestResult(o)),
                                     Ev(r, "extract", "raise")>>)
             /\ UNCHANGED df_raw
    /\ UNCHANGED <<df_clean, rows_loaded, exc, exit_code, dataset, staging,
                   production, audit, clock, audit_calls, pre>>

\* etl_dag.py:44-51  transform_task: xcom_pull and pd.read_json,
\* transform_product_data, then the clean frame is pushed as JSON (df_clean
\* holds the XCom value).
DagTransform(r) ==
    /\ pc[r] = "dag_transform"
    /\ \E unit \in DatetimeUnits :
        LET o == transform_product_data(ReadJson(df_raw[r]), clock, unit)
        IN  IF o.ok
            THEN /\ df_clean' = [df_clean EXCEPT ![r] = ToJson(o.df)]
                 /\ events' = events \o <<Ev(r, "transform", "call"),
                                          Ev(r, "transform", "ok")>>
                 /\ Goto(r, "dag_load")
            ELSE /\ FailTask(r, "transform_task",
                             events \o <<Ev(r, "transform", "call"),
                                         Ev(r, "transform", "raise")>>)
                 /\ UNCHANGED df_clean
    /\ clock' = clock + 1
    /\ UNCHANGED <<df_raw, rows_loaded, exc, exit_code, dataset, staging,
                   production, audit, audit_calls, pre>>

\* etl_dag.py:53-58  load_task: xcom_pull and pd.read_json, then
\* load_to_bigquery(df_clean) is called.  A later attempt decodes the same
\* XCom value again; ReadJson leaves a decoded frame as it is.
DagLoadPull(r) ==
    /\ pc[r] = "dag_load"
    /\ df_clean' = [df_clean EXCEPT ![r] = ReadJson(df_clean[r])]
    /\ Goto(r, "load")
    /\ UNCHANGED <<df_raw, rows_loaded, exc, exit_code, dataset, staging,
                   production, audit, clock, events, audit_calls, pre>>

\* etl_dag.py:58  load_to_bigquery raised: the attempt of load_task failed.
DagLoadRaised(r) ==
    /\ pc[r] = "except"
    /\ events' = Append(events, Ev(r, "load_task", "fail"))
    /\ IF Failures(r, "load_task") < retries
       THEN Goto(r, "dag_load")
       ELSE Goto(r, "dag_failed")
    /\ UNCHANGED <<df_raw, df_clean, rows_loaded, exc, exit_code, dataset, staging,
                   production, audit, clock, audit_calls, pre>>

\* etl_dag.py:59-60  load_to_bigquery returned:
\* log_pipeline_run(status="SUCCESS", rows_loaded=len(df_clean)), task done.
DagLoadReturned(r) ==
    /\ pc[r] = "load_returned"
    /\ log_pipeline_run(r, "SUCCESS", RowCount(df_clean[r]), NoExc)
    /\ Goto(r, "dag_success")
    /\ UNCHANGED <<df_raw, df_clean, rows_loaded, exc, exit_code, dataset, staging,
                   production, pre>>

\* One run of the DAG: extract >> transform >> load (etl_dag.py:82).
DagWarehouses ==
    {w \in Warehouses :
        \/ ~w.dataset
        \/ w.staging = NoTable /\ w.production.exists /\ w.audit # <<>>}

InitDag ==
    /\ \E w \in DagWarehouses :
           InitWith(w, [r \in Runs |-> IF r = 1 THEN "dag_extract" ELSE "idle"])
    /\ df_clean = [r \in Runs |-> EmptyFrame]

NextDag ==
    \E r \in Runs :
        \/ DagExtract(r)
        \/ DagTransform(r)
        \/ DagLoadPull(r)
        \/ CallLoad(r)
        \/ LoadClient(r)
        \/ LoadCreateDataset(r)
        \/ LoadStaging(r)
        \/ LoadSwap(r)
        \/ LoadVerify(r)
        \/ DagLoadRaised(r)
        \/ DagLoadReturned(r)

SpecDag == InitDag /\ [][NextDag]_vars

\* ------------------------------------------------- reading the histories

Happened(r, op, res) == \E i \in DOMAIN events : events[i] = Ev(r, op, res)

\* load_to_bigquery raised the error of `step`.
LoadFailedAt(r, step) ==
    \E i \in DOMAIN events :
        /\ i < Len(events)
        /\ events[i] = Ev(r, step, "raise")
        /\ events[i + 1] = Ev(r, "load", "raise")

CallsOf(r) == SelectSeq(audit_calls, LAMBDA c : c.run = r)

Stages == <<"extract", "transform", "load">>
LoadSteps == {"client", "create_dataset", "staging_write", "swap", "verify"}

StageRaised(r) == \E k \in DOMAIN Stages : Happened(r, Stages[k], "raise")
AllStagesOk(r) == \A k \in DOMAIN Stages : Happened(r, Stages[k], "ok")

Codes(df) == {df.rows[i]["code"] : i \in 1..Len(df.rows)}
RowSet(t) == {t.rows[i] : i \in 1..Len(t.rows)}

\* ------------------------------------------------------------------ claims

\* C1 (as stated): during one load_to_bigquery run on a non-empty batch the
\* production table is exactly its pre-run content or exactly the batch being
\* loaded, and a load that fails at dataset creation or at the staging write
\* leaves production at its pre-run content.
C1_Original ==
    \A r \in Runs :
        (Happened(r, "load", "call") /\ ~IsEmpty(df_clean[r])) =>
            /\ production \in {pre.production, Table(df_clean[r])}
            /\ \A step \in {"create_dataset", "staging_write"} :
                   LoadFailedAt(r, step) => production = pre.production

\* C1 (amended): during one load_to_bigquery run on a non-empty batch the
\* production table is exactly its pre-run content or exactly the complete
\* batch as submitted to the staging load, i.e. with its datetime64[ns] columns
\* rendered as text (never a mix or a subset), and a load that fails at
\* dataset creation or at the staging write leaves it at its pre-run content.
C1_StagedSwap ==
    \A r \in Runs :
        (Happened(r, "load", "call") /\ ~IsEmpty(df_clean[r])) =>
            /\ production \in {pre.production, Table(df_load(df_clean[r]))}
            /\ \A step \in {"create_dataset", "staging_write"} :
                   LoadFailedAt(r, step) => production = pre.production

\* C1 witness: the swap has replaced an existing, different production table
\* by the complete batch.
C1_Witness ==
    /\ Happened(1, "swap", "ok")
    /\ pre.production.exists
    /\ production # pre.production
    /\ Len(production.rows) = RowCount(df_clean[1])
    /\ Len(production.rows) > 1

\* C2 (as stated): every terminated run of run_pipeline has appended exactly
\* one AuditEntry to the audit log.
C2_Original ==
    \A r \in Runs : pc[r] = "done" => Len(audit) = Len(pre.audit) + 1

\* C2 (amended): every terminated run of run_pipeline, whether it succeeded or
\* failed at extract, transform or load, has invoked log_pipeline_run exactly
\* once (and a run still in progress never more than once); the audit log has
\* grown by exactly that one entry when the audit write succeeded and is
\* unchanged when the write failed inside log_pipeline_run.
C2_OneAuditWrite ==
    \A r \in Runs :
        /\ Len(CallsOf(r)) <= 1
        /\ pc[r] = "done" =>
              /\ Len(CallsOf(r)) = 1
              /\ audit = IF CallsOf(r)[1].res = "ok"
                         THEN Append(pre.audit, CallsOf(r)[1].entry)
                         ELSE pre.audit

\* C2 witness: a run that failed in the load has terminated with its one
\* entry appended after an earlier entry.
C2_Witness ==
    /\ pc[1] = "done"
    /\ Happened(1, "load", "raise")
    /\ Len(pre.audit) = 1
    /\ Len(audit) = 2
    /\ audit[2].status = "FAILED"

\* C3 (as stated): a run in which extract_product_data raises appends exactly
\* one AuditEntry with status FAILED, rows_loaded = 0 and a non-empty error
\* message, invokes neither transform nor load, and leaves staging and
\* production unchanged.
C3_Original ==
    \A r \in Runs :
        (Happened(r, "extract", "raise") /\ pc[r] = "done") =>
            /\ Len(audit) = Len(pre.audit) + 1
            /\ audit[Len(audit)].status = "FAILED"
            /\ audit[Len(audit)].rows_loaded = 0
            /\ audit[Len(audit)].error_message \notin {Null, Str("")}
            /\ ~Happened(r, "transform", "call")
            /\ ~Happened(r, "load", "call")
            /\ staging = pre.staging /\ production = pre.production

\* C3 (amended): a run in which extract_product_data raises makes exactly one
\* audit write, of an AuditEntry with status FAILED, rows_loaded = 0 and a
\* non-empty error message, which is appended unless the audit write itself
\* fails (then the log is unchanged); neither transform nor load is invoked,
\* and staging and production are unchanged.
C3_ExtractFailure ==
    \A r \in Runs :
        Happened(r, "extract", "raise") =>
            /\ ~Happened(r, "transform", "call")
            /\ ~Happened(r, "load", "call")
            /\ \A step \in LoadSteps : \A res \in {"ok", "raise"} :
                   ~Happened(r, step, res)
            /\ staging = pre.staging /\ production = pre.production
            /\ pc[r] = "done" =>
                  /\ Len(CallsOf(r)) = 1
                  /\ CallsOf(r)[1].entry.status = "FAILED"
                  /\ CallsOf(r)[1].entry.rows_loaded = 0
                  /\ CallsOf(r)[1].entry.error_message \in
                         {Str(e.msg) : e \in ExtractErrors}
                  /\ CallsOf(r)[1].entry.error_message \notin {Null, Str("")}
                  /\ audit = IF CallsOf(r)[1].res = "ok"
                             THEN Append(pre.audit, CallsOf(r)[1].entry)
                             ELSE pre.audit

\* C3 witness: the extract raised, the run has terminated and its FAILED
\* entry is in the audit log, next to an untouched production table.
C3_Witness ==
    /\ Happened(1, "extract", "raise")
    /\ pc[1] = "done"
    /\ Len(audit) = Len(pre.audit) + 1
    /\ audit[Len(audit)].status = "FAILED"
    /\ production.exists

\* C4 (as stated): a run in which load_to_bigquery succeeds on a clean batch
\* of n >= 1 records appends one AuditEntry with status SUCCESS and
\* rows_loaded = n, and ends with exit code 0.
C4_Original ==
    \A r \in Runs :
        (Happened(r, "load", "ok") /\ RowCount(df_clean[r]) >= 1 /\ pc[r] = "done") =>
            /\ Len(audit) = Len(pre.audit) + 1
            /\ audit[Len(audit)].status = "SUCCESS"
            /\ audit[Len(audit)].rows_loaded = RowCount(df_clean[r])
            /\ exit_code[r] = 0

\* C4 (amended): a run in which load_to_bigquery succeeds on a clean batch of
\* n >= 1 records makes one audit write, of an AuditEntry with status SUCCESS
\* and rows_loaded = n, where n is the size of the transformed batch (one
\* record per distinct code of the raw batch); the entry is appended unless the
\* audit write itself fails, and the run ends with exit code 0.
C4_SuccessEntry ==
    \A r \in Runs :
        (Happened(r, "load", "ok") /\ RowCount(df_clean[r]) >= 1 /\ pc[r] = "done") =>
            /\ Len(CallsOf(r)) = 1
            /\ CallsOf(r)[1].entry.status = "SUCCESS"
            /\ CallsOf(r)[1].entry.rows_loaded = RowCount(df_clean[r])
            /\ ~IsEmpty(df_raw[r]) =>
                   CallsOf(r)[1].entry.rows_loaded = Cardinality(Codes(df_raw[r]))
            /\ audit = IF CallsOf(r)[1].res = "ok"
                       THEN Append(pre.audit, CallsOf(r)[1].entry)
                       ELSE pre.audit
            /\ exit_code[r] = 0

\* C4 witness: two raw records with one code were loaded as one and the
\* SUCCESS entry with rows_loaded = 1 is in the audit log.
C4_Witness ==
    /\ pc[1] = "done"
    /\ Happened(1, "verify", "ok")
    /\ RowCount(df_raw[1]) = 2
    /\ RowCount(df_clean[1]) = 1
    /\ Len(audit) = Len(pre.audit) + 1
    /\ audit[Len(audit)].status = "SUCCESS"
    /\ audit[Len(audit)].rows_loaded = 1
    /\ exit_code[1] = 0

\* C5 (as stated): after load_to_bigquery has returned successfully for a
\* non-empty batch B, the production table holds exactly |B| rows and exactly
\* the record set of B, whatever staging and production held before.
C5_Original ==
    \A r \in Runs :
        (Happened(r, "load", "ok") /\ ~IsEmpty(df_clean[r])) =>
            /\ production.exists
            /\ Len(production.rows) = RowCount(df_clean[r])
            /\ RowSet(production) = RowSet(df_clean[r])

\* The text pandas' astype(str) gives a datetime64[ns] value, any other value
\* as it is.
C5_Stored(v) ==
    IF v = NaT THEN Str("NaT")
    ELSE IF IsDt(v) /\ v.unit = "ns" THEN Str(TimeText(v.dt))
    ELSE v

\* C5 (amended): after load_to_bigquery has returned successfully for a
\* non-empty batch B (no other run active), the production table holds exactly
\* |B| rows with B's columns, one per record of B, each equal to B's record
\* except that the values of datetime64[ns] columns are stored as their text
\* (a missing date as the text "NaT"), whatever staging and production held
\* before.
C5_RoundTrip ==
    \A r \in Runs :
        (Happened(r, "load", "ok") /\ ~IsEmpty(df_clean[r])) =>
            /\ production.exists
            /\ production.cols = df_clean[r].cols
            /\ Len(production.rows) = RowCount(df_clean[r])
            /\ \A i \in 1..RowCount(df_clean[r]) : \A c \in df_clean[r].cols :
                   production.rows[i][c] = C5_Stored(df_clean[r].rows[i][c])
            /\ Cardinality(Codes(production)) = RowCount(df_clean[r])

\* C5 witness: the load returned for a two-record batch with a missing date
\* while staging held a stale batch and production an older one.
C5_Witness ==
    /\ Happened(1, "load", "ok")
    /\ RowCount(df_clean[1]) = 2
    /\ pre.staging = Table(StaleBatch)
    /\ pre.production = Table(PreviousBatch)
    /\ "last_modified_date" \in df_clean[1].cols
    /\ \E i \in 1..2 : df_clean[1].rows[i]["last_modified_date"] = NaT
    /\ Len(production.rows) = 2

\* C6: if step 1 (dataset creation), step 2 (staging write) or step 3 (swap)
\* of load_to_bigquery fails, the load aborts at that step: the run executes no
\* later step of the protocol and is recorded as FAILED, not SUCCESS.
C6_AbortOnStepFailure ==
    \A r \in Runs : \A i \in DOMAIN events :
        (/\ events[i].run = r
         /\ events[i].op \in {"create_dataset", "staging_write", "swap"}
         /\ events[i].res = "raise") =>
            /\ \A j \in DOMAIN events :
                   j > i => ~(events[j].run = r /\ events[j].op \in LoadSteps)
            /\ \A k \in DOMAIN CallsOf(r) : CallsOf(r)[k].entry.status = "FAILED"

\* C7: load_to_bigquery called with an empty batch (no records) raises no
\* error, creates no client and no dataset, runs no step of the protocol and
\* leaves dataset, staging and production as they were (this much for every
\* frame with df.empty); the run then records rows_loaded = 0 with SUCCESS.
C7_EmptyBatchNoOp ==
    \A r \in Runs :
        /\ (Happened(r, "load", "call") /\ IsEmpty(df_clean[r])) =>
              /\ Happened(r, "load", "ok")
              /\ ~Happened(r, "load", "raise")
              /\ \A step \in LoadSteps : \A res \in {"ok", "raise"} :
                     ~Happened(r, step, res)
              /\ dataset = pre.dataset
              /\ staging = pre.staging
              /\ production = pre.production
        /\ (Happened(r, "load", "call") /\ RowCount(df_clean[r]) = 0) =>
              /\ rows_loaded[r] = 0
              /\ \A k \in DOMAIN CallsOf(r) :
                     /\ CallsOf(r)[k].entry.rows_loaded = 0
                     /\ CallsOf(r)[k].entry.status = "SUCCESS"
              /\ pc[r] = "done" => (Len(CallsOf(r)) = 1 /\ exit_code[r] = 0)

\* C7 witness: a run whose batch was empty has terminated, its entry with
\* rows_loaded = 0 is in the audit log, and existing tables are as before.
C7_Witness ==
    /\ pc[1] = "done"
    /\ Happened(1, "load", "ok")
    /\ RowCount(df_clean[1]) = 0
    /\ pre.production.exists /\ pre.staging.exists
    /\ Len(audit) = Len(pre.audit) + 1
    /\ audit[Len(audit)].rows_loaded = 0

\* C8: a failure inside log_pipeline_run never reaches its caller: whatever
\* the audit write did, a terminated run has called it once, ends with exit
\* code 0 when extract, transform and load all succeeded, and with a non-zero
\* exit code when a stage failed.
C8_AuditFailureContained ==
    \A r \in Runs :
        pc[r] = "done" =>
            /\ Len(CallsOf(r)) = 1
            /\ AllStagesOk(r) => exit_code[r] = 0
            /\ StageRaised(r) => exit_code[r] # 0
            /\ AllStagesOk(r) \/ StageRaised(r)

\* C8 witness: the audit append failed after a load that replaced production,
\* and the run ended with exit code 0.
C8_Witness ==
    /\ pc[1] = "done"
    /\ AllStagesOk(1)
    /\ Happened(1, "swap", "ok")
    /\ CallsOf(1)[1].res = "append_error"
    /\ audit = pre.audit
    /\ exit_code[1] = 0

StageEvents(r) ==
    SelectSeq(events, LAMBDA e : e.run = r /\ e.op \in {"extract", "transform", "load"})

EventsOf(r) == SelectSeq(events, LAMBDA e : e.run = r)

\* C9: in every run the stages start in the order extract, transform, load,
\* each only after the previous one returned successfully; once a stage raises
\* no later stage is started; the audit write comes after the last stage that
\* ran (all three returned, or one raised) and is the run's last call before it
\* terminates.
C9_StageOrder ==
    \A r \in Runs :
        LET se == StageEvents(r)
            ev == EventsOf(r)
        IN  /\ Len(se) <= 2 * Len(Stages)
            /\ \A i \in DOMAIN se :
                   /\ se[i].op = Stages[(i + 1) \div 2]
                   /\ (i % 2 = 1) => se[i].res = "call"
                   /\ (i % 2 = 0) => se[i].res \in {"ok", "raise"}
                   /\ (i % 2 = 1 /\ i > 1) => se[i - 1].res = "ok"
            /\ \A i \in DOMAIN ev :
                   ev[i].op = "audit" =>
                       /\ i = Len(ev)
                       /\ Len(se) > 0 /\ Len(se) % 2 = 0
                       /\ se[Len(se)].res = "raise" \/ Len(se) = 2 * Len(Stages)
            /\ pc[r] = "done" => (Len(ev) > 0 /\ ev[Len(ev)].op = "audit")

\* C9 witness: a run went through extract, transform, every step of the load
\* and the audit write, in this order, and has terminated.
C9_Witness ==
    /\ pc[1] = "done"
    /\ Len(StageEvents(1)) = 6
    /\ Happened(1, "verify", "ok")
    /\ EventsOf(1)[Len(EventsOf(1))] = Ev(1, "audit", "ok")

\* Positions in the history of the swaps and staging writes that took effect.
SwapsDone == {i \in DOMAIN events : events[i].op = "swap" /\ events[i].res = "ok"}
WritesDoneBefore(k) ==
    {i \in 1..k : events[i].op = "staging_write" /\ events[i].res = "ok"}
Last(S) == CHOOSE i \in S : \A j \in S : j <= i
LoadCompleted(r) == pc[r] \in {"load_returned", "except"}

\* C10 (as stated): when two runs on the same destination have both completed
\* their load, production holds the (stored) batch of the run whose swap
\* completed last.
C10_Original ==
    (\A r \in Runs : Happened(r, "load", "ok") /\ ~IsEmpty(df_clean[r])) =>
        production = Table(df_load(df_clean[events[Last(SwapsDone)].run]))

\* C10 (amended): when two runs on the same destination have both completed,
\* production holds the batch that was most recently written to the shared
\* staging table when the last swap completed: the stored batch of the run
\* whose staging write came last before that swap, which need not be the run
\* that made the swap.
C10_LastStagingWriteWins ==
    ((\A r \in Runs : LoadCompleted(r)) /\ SwapsDone # {}) =>
        production =
            Table(df_load(df_clean[
                events[Last(WritesDoneBefore(Last(SwapsDone)))].run]))

\* C10 witness: both loads returned; the run that swapped last is not the run
\* that wrote staging last, and production holds the other run's batch.
C10_Witness ==
    /\ \A r \in Runs : Happened(r, "load", "ok") /\ ~IsEmpty(df_clean[r])
    /\ df_clean[1] # df_clean[2]
    /\ events[Last(SwapsDone)].run = 1
    /\ events[Last(WritesDoneBefore(Last(SwapsDone)))].run = 2
    /\ production = Table(df_load(df_clean[2]))
    /\ production # Table(df_load(df_clean[1]))

\* ------------------------------------------------ claims on the transform

\* A field of a record, Absent when the record has no such field.
Absent == [absent |-> TRUE]
Field(row, c) == IF c \in DOMAIN row THEN row[c] ELSE Absent

\* The code of a record: null when the record carries none.
CodeOf(row) == IF "code" \in DOMAIN row THEN row["code"] ELSE Null
CodesOf(df) == {CodeOf(df.rows[i]) : i \in 1..Len(df.rows)}

\* The first record of df carrying code c.
FirstWith(df, c) ==
    CHOOSE j \in 1..Len(df.rows) :
        /\ CodeOf(df.rows[j]) = c
        /\ \A k \in 1..(j - 1) : CodeOf(df.rows[k]) # c

\* The run's transform returned for a raw batch of at least one record.
Transformed(r) == Happened(r, "transform", "ok") /\ RowCount(df_raw[r]) > 0

PlainDefaults ==
    << <<"categories", "Uncategorized">>, <<"stores", "Unknown Store">>,
       <<"countries", "Unknown Country">>, <<"quantity", "Unknown">> >>

\* The output has one record per distinct code of the input, each taken from
\* the first input record with its code, in input order.
OnePerCodeFirstSeen(raw, out) ==
    /\ RowCount(out) = Cardinality(CodesOf(raw))
    /\ CodesOf(out) = CodesOf(raw)
    /\ \A i \in 1..RowCount(out) :
           LET first == raw.rows[FirstWith(raw, CodeOf(out.rows[i]))]
           IN  \A k \in DOMAIN PlainDefaults :
                   LET c == PlainDefaults[k][1]
                   IN  c \in out.cols =>
                           out.rows[i][c] =
                               IF Field(first, c) \in {Null, Absent}
                               THEN Str(PlainDefaults[k][2])
                               ELSE first[c]
    /\ \A i, j \in 1..RowCount(out) :
           i < j => FirstWith(raw, CodeOf(out.rows[i]))
                        < FirstWith(raw, CodeOf(out.rows[j]))

AllHaveCode(df) ==
    \A i \in 1..Len(df.rows) : Field(df.rows[i], "code") \notin {Null, Absent}

\* C12: for every non-empty raw batch in which every record has a code,
\* transform_product_data does not fail, also when one of product_name,
\* categories, quantity, stores, countries, nutriscore_grade is absent from
\* some or all records, and every output record has a non-null value for each
\* of the six, the documented default where the source value was null or
\* absent.
C12_AbsentFieldsDefaulted ==
    \A r \in Runs :
        (/\ Happened(r, "transform", "call")
         /\ RowCount(df_raw[r]) > 0
         /\ AllHaveCode(df_raw[r])) =>
            /\ Happened(r, "transform", "ok")
            /\ \A i \in 1..RowCount(df_clean[r]) : \A k \in DOMAIN Defaults :
                   LET c == Defaults[k][1]
                       first == df_raw[r].rows[FirstWith(df_raw[r],
                                                         CodeOf(df_clean[r].rows[i]))]
                   IN  /\ Field(df_clean[r].rows[i], c) \notin {Null, Absent}
                       /\ Field(first, c) \in {Null, Absent} =>
                              df_clean[r].rows[i][c] = Str(Defaults[k][2])

\* The flag the claim gives a record.
C13_Flag(row) ==
    IF Field(row, "nutriscore_grade") = Str("not_rated") THEN Str("missing_nutriscore")
    ELSE IF Field(row, "product_name") = Str("Unknown Product") THEN Str("missing_name")
    ELSE Str("ok")

CountMismatch(r) ==
    \E i \in DOMAIN events :
        /\ events[i].run = r
        /\ events[i].op = "verified"
        /\ events[i].res # ToString(RowCount(df_clean[r]))

\* C14: when the row count read back in step 4 differs from the size of the
\* batch being loaded, load_to_bigquery still returns without raising, the
\* swap is not rolled back (production stays a swapped-in batch), and the run
\* records SUCCESS with rows_loaded equal to the batch size.
C14_MismatchIgnored ==
    \A r \in Runs :
        CountMismatch(r) =>
            /\ Happened(r, "load", "ok")
            /\ ~Happened(r, "load", "raise")
            /\ exc[r] = NoExc
            /\ production \in {Table(df_load(df_clean[q])) : q \in Runs}
            /\ production # pre.production
            /\ pc[r] \in {"load_returned", "log_success", "done"}
            /\ pc[r] \in {"log_success", "done"} =>
                   rows_loaded[r] = RowCount(df_clean[r])
            /\ \A k \in DOMAIN CallsOf(r) :
                   /\ CallsOf(r)[k].entry.status = "SUCCESS"
                   /\ CallsOf(r)[k].entry.rows_loaded = RowCount(df_clean[r])
            /\ pc[r] = "done" => (Len(CallsOf(r)) = 1 /\ exit_code[r] = 0)

\* C14 witness: run 1 loaded a one-record batch, read back a count of 2 (the
\* other run's batch was swapped in), and ended with a SUCCESS entry with
\* rows_loaded = 1 in the audit log.
C14_Witness ==
    /\ pc[1] = "done"
    /\ RowCount(df_clean[1]) = 1
    /\ Happened(1, "verified", "2")
    /\ Len(production.rows) = 2
    /\ \E k \in DOMAIN audit :
           /\ audit[k] = CallsOf(1)[1].entry
           /\ audit[k].status = "SUCCESS"
           /\ audit[k].rows_loaded = 1
    /\ exit_code[1] = 0

\* ------------------------------------------------- claims on the extract

Requests(r) == SelectSeq(events, LAMBDA e : e.run = r /\ e.op = "request")

\* C15: each invocation of extract_product_data issues exactly one network
\* request; on a timeout or an HTTP error status it raises that error to the
\* caller without a second request; when the source returns zero products it
\* returns an empty result without raising.
C15_SingleRequest ==
    \A r \in Runs :
        Happened(r, "extract", "call") =>
            /\ Len(Requests(r)) = 1
            /\ Requests(r)[1].res \in {e.type : e \in ExtractErrors} =>
                   /\ Happened(r, "extract", "raise")
                   /\ ~Happened(r, "extract", "ok")
                   /\ exc[r].type = Requests(r)[1].res
                   /\ exc[r] \in ExtractErrors
            /\ Requests(r)[1].res \notin {e.type : e \in ExtractErrors} =>
                   /\ Happened(r, "extract", "ok")
                   /\ ~Happened(r, "extract", "raise")
            /\ Requests(r)[1].res = "products:0" =>
                   /\ df_raw[r] = EmptyFrame
                   /\ RowCount(df_raw[r]) = 0

\* C15 witness: the one request of the run timed out, the extract raised the
\* timeout to run_pipeline, and the run has ended.
C15_Witness ==
    /\ pc[1] = "done"
    /\ Requests(1) = <<Ev(1, "request", "Timeout")>>
    /\ Happened(1, "extract", "raise")
    /\ exc[1].type = "Timeout"
    /\ exit_code[1] = 1

\* C15, the empty case reached: the source returned zero products and the
\* run went on with an empty frame.
C15_EmptyReached ==
    /\ Requests(1) = <<Ev(1, "request", "products:0")>>
    /\ Happened(1, "transform", "ok")
    /\ df_raw[1] = EmptyFrame

\* C16: whenever a run of run_pipeline ends with a FAILED AuditEntry (which
\* always carries rows_loaded = 0), the production table is unchanged from its
\* content before the run; in particular a run whose step-4 count query
\* failed after its swap replaced production has no FAILED entry.
C16_FailedLeavesProduction ==
    \A r \in Runs :
        (/\ pc[r] = "done"
         /\ \E k \in DOMAIN CallsOf(r) : CallsOf(r)[k].entry.status = "FAILED") =>
            /\ \A k \in DOMAIN CallsOf(r) : CallsOf(r)[k].entry.rows_loaded = 0
            /\ production = pre.production
            /\ ~(Happened(r, "swap", "ok") /\ Happened(r, "verify", "raise"))

\* The date the claim gives an output record: that of the numeric
\* last-modified value of the input record it comes from, null (NaT) when
\* that value is unparsable, null or missing.
C18_Date(raw, row) ==
    LET v == ToNumeric(Field(raw.rows[FirstWith(raw, CodeOf(row))], "last_modified_t"))
    IN  IF IsNum(v) THEN Dt(v.num, "ns") ELSE NaT

\* Columns whose absence makes transform raise a KeyError.
RequiredColumns == {"code"} \cup {Defaults[k][1] : k \in DOMAIN Defaults}

\* Transform did not fail over the last-modified value: what it raised, if
\* anything, is the KeyError of another column.
C18_NoDateFailure(r) ==
    Happened(r, "transform", "raise") =>
        /\ exc[r].type = "KeyError"
        /\ exc[r].msg \in RequiredColumns \ df_raw[r].cols

DagEnded(r) == pc[r] \in {"dag_success", "dag_failed"}

\* C17: every run of the scheduled DAG (extract_task, transform_task,
\* load_task, each retried up to 3 times) makes exactly one audit entry,
\* whatever its outcome: FAILED when a task failed on all its attempts,
\* SUCCESS when load_task succeeded, also after retries.
C17_OneEntryPerDagRun ==
    \A r \in Runs :
        DagEnded(r) =>
            /\ Len(CallsOf(r)) = 1
            /\ pc[r] = "dag_failed" => CallsOf(r)[1].entry.status = "FAILED"
            /\ pc[r] = "dag_success" => CallsOf(r)[1].entry.status = "SUCCESS"

====
